---- MODULE Spec2Model ----
(***************************************************************************)
(* Model of the notebook "Hidden in Time, Revealed in Frequency":          *)
(*   extract_stft_features, extract_wavelet_features and                   *)
(*   apply_feature_extraction.                                             *)
(*                                                                         *)
(* Floating point values are kept symbolic.  A sample or a feature value   *)
(* is a term [stat, idx, of]: the value at position `idx' of the statistic *)
(* `stat' in the sequence whose identity is `of' (a raw signal, or the     *)
(* transform of one).  Equal terms denote equal numbers; the shapes (how   *)
(* many values, in which order) are computed exactly as scipy.signal.stft, *)
(* librosa.feature.* and pywt.wavedec compute them.                        *)
(***************************************************************************)
EXTENDS Integers, Sequences, FiniteSets, TLC

VARIABLES df, call, result

vars == <<df, call, result>>

---------------------------------------------------------------------------
(* Bounds of the exploration *)

NRows == 2
MaxCols == 2
MaxSpecLen == 2
MaxLevel == 4

---------------------------------------------------------------------------
(* Generic helpers *)

Range(s) == {s[i] : i \in 1..Len(s)}

SeqsUpTo(S, n) == UNION {[1..k -> S] : k \in 0..n}

RECURSIVE Flatten(_)
Flatten(ss) == IF ss = <<>> THEN <<>> ELSE Head(ss) \o Flatten(Tail(ss))

Filter(s, S) == SelectSeq(s, LAMBDA e : e \in S)

---------------------------------------------------------------------------
(* Signals and symbolic values *)

Term(stat, idx, of) == [stat |-> stat, idx |-> idx, of |-> of]

\* A raw integer sequence of n samples, named id.
RawSignal(id, n) == [i \in 1..n |-> Term("x", i, id)]

\* Identity of the content of a non-empty sequence handed to an extractor.
SigId(data) == data[1].of

\* Identity of the magnitude spectrogram of a signal
StftOf(id) == "stft(" \o id \o ")"

\* Identity of the wavelet decomposition of a signal
DwtOf(id, wavelet, level) ==
    "dwt(" \o id \o "," \o wavelet \o "," \o ToString(level) \o ")"

\* numpy arrays, and what list() makes of them
NdArray(s) == [ndarray |-> TRUE, data |-> s]

ToList(a) == a.data

\* Outcome of a call: a returned value or a raised exception
Ok(v) == [raised |-> FALSE, exc |-> "", warned |-> FALSE, value |-> v]

OkWarn(v) == [raised |-> FALSE, exc |-> "", warned |-> TRUE, value |-> v]

Raise(e) == [raised |-> TRUE, exc |-> e, warned |-> FALSE, value |-> NdArray(<<>>)]

\* features_to_extract: None, or a list of names
NoneSpec == [none |-> TRUE, names |-> <<>>]

ListSpec(s) == [none |-> FALSE, names |-> s]

\* variant: "if features_to_extract is None"
Falsy_NoneOnly(spec) == spec.none

\* Python truthiness of features_to_extract ("if not features_to_extract")
Falsy(spec) == spec.none \/ Len(spec.names) = 0

---------------------------------------------------------------------------
(* extract_stft_features *)

nperseg == 256
noverlap == 128

StftDefault ==
    <<"mean", "std", "spectral_centroid", "spectral_bandwidth",
      "spectral_contrast", "spectral_flatness", "spectral_rolloff",
      "chroma_stft", "mfcc">>

\* keys of feature_map
StftFeatureMap == Range(StftDefault)

\* np.mean / np.std with axis=1: one value per frequency bin
StftBinStats == {"mean", "std"}

\* variant: boundary=None, the input is not extended on either side
StftShape_NoBoundary(n) ==
    IF n = 0 THEN [raised |-> FALSE, ndim |-> 1, bins |-> 0, frames |-> 0]
    ELSE LET seg == IF nperseg > n THEN n ELSE nperseg IN
         IF noverlap >= seg
         THEN [raised |-> TRUE, ndim |-> 0, bins |-> 0, frames |-> 0]
         ELSE LET nstep == seg - noverlap
                  nadd == ((0 - (n - seg)) % nstep) % seg
              IN [raised |-> FALSE, ndim |-> 2,
                  bins |-> (seg \div 2) + 1,
                  frames |-> (n + nadd - noverlap) \div nstep]

\* scipy.signal.stft(data, fs=1000, window='hann', nperseg=256, noverlap=128):
\* the shape of Zxx.  A segment longer than the input is cut to the input
\* length; an overlap not below the segment raises; the input is extended by
\* half a segment on both sides (boundary='zeros') and zero padded to a whole
\* number of hops (padded=True); the empty input gives an empty 1-D array.
StftShape(n) ==
    IF n = 0 THEN [raised |-> FALSE, ndim |-> 1, bins |-> 0, frames |-> 0]
    ELSE LET seg == IF nperseg > n THEN n ELSE nperseg IN
         IF noverlap >= seg
         THEN [raised |-> TRUE, ndim |-> 0, bins |-> 0, frames |-> 0]
         ELSE LET nstep == seg - noverlap
                  ext == n + 2 * (seg \div 2)
                  nadd == ((0 - (ext - seg)) % nstep) % seg
              IN [raised |-> FALSE, ndim |-> 2,
                  bins |-> (seg \div 2) + 1,
                  frames |-> (ext + nadd - noverlap) \div nstep]

\* feature_map[feat](): the array one feature yields on the magnitude
\* spectrogram.  mean and std reduce along axis 1 (one value per bin); the
\* librosa descriptors return a matrix with one column per frame, of which
\* row [0] is kept.
StftSegLen(feat, shape) ==
    IF feat \in StftBinStats THEN shape.bins ELSE shape.frames

StftFeature(feat, shape, id) ==
    [i \in 1..StftSegLen(feat, shape) |-> Term(feat, i, id)]

\* np.concatenate(list of arrays)
Concatenate(arrays) ==
    IF arrays = <<>> THEN Raise("ValueError: need at least one array to concatenate")
    ELSE Ok(NdArray(Flatten(arrays)))

extract_stft_features(data, features_to_extract) ==
    LET shape == StftShape(Len(data))
        feats == IF Falsy(features_to_extract) THEN StftDefault
                 ELSE features_to_extract.names
        known == Filter(feats, StftFeatureMap)
    IN IF shape.raised THEN Raise("ValueError: noverlap must be less than nperseg.")
       ELSE IF shape.ndim = 1 /\ known # <<>>
            THEN Raise("feature_map[feat](): the spectrogram of an empty input has one dimension")
       ELSE Concatenate([j \in 1..Len(known) |->
                            StftFeature(known[j], shape, StftOf(SigId(data)))])

---------------------------------------------------------------------------
(* extract_wavelet_features *)

DefaultWavelet == "coif6"

DefaultLevel == 4

\* pywt.Wavelet(name).dec_len
DecLen(wavelet) == IF wavelet = "coif6" THEN 36 ELSE 2

DwtDefault ==
    <<"mean", "std", "median", "max", "min", "range", "energy",
      "crest_factor", "shape_factor">>

\* keys of feature_map
DwtFeatureMap == Range(DwtDefault)

\* np.max / np.min of a zero-size array raise; mean, std, median, sum do not
DwtRaisesOnEmpty == {"max", "min", "range", "crest_factor"}

\* pywt.dwt_max_level: floor(log2(n div (F-1))), 0 when n < F-1
RECURSIVE Log2Floor(_)
Log2Floor(q) == IF q <= 1 THEN 0 ELSE 1 + Log2Floor(q \div 2)

DwtMaxLevel(n, F) == IF n < F - 1 THEN 0 ELSE Log2Floor(n \div (F - 1))

\* pywt.dwt_coeff_len in mode 'symmetric'
DwtCoeffLen(n, F) == (n + F - 1) \div 2

\* variant: the final approximation is not appended
RECURSIVE WavedecLoop_NoApprox(_, _, _, _)
WavedecLoop_NoApprox(a, F, todo, details) ==
    IF todo = 0 THEN [raised |-> FALSE, lens |-> details]
    ELSE IF DwtCoeffLen(a, F) < 1 \/ a < 1
         THEN [raised |-> TRUE, lens |-> <<>>]
         ELSE WavedecLoop_NoApprox(DwtCoeffLen(a, F), F, todo - 1,
                                   <<DwtCoeffLen(a, F)>> \o details)

\* the loop of pywt.wavedec: lengths of [cA_L, cD_L, ..., cD_1]; a dwt of
\* an empty array raises.
RECURSIVE WavedecLoop(_, _, _, _)
WavedecLoop(a, F, todo, details) ==
    IF todo = 0 THEN [raised |-> FALSE, lens |-> <<a>> \o details]
    ELSE IF DwtCoeffLen(a, F) < 1 \/ a < 1
         THEN [raised |-> TRUE, lens |-> <<>>]
         ELSE WavedecLoop(DwtCoeffLen(a, F), F, todo - 1,
                          <<DwtCoeffLen(a, F)>> \o details)

\* pywt.wavedec(data, wavelet, level=level): a negative level raises, a level
\* above dwt_max_level only warns.
Wavedec(n, wavelet, level) ==
    IF level < 0
    THEN [raised |-> TRUE, warned |-> FALSE, lens |-> <<>>,
          exc |-> "ValueError: Level value is too low"]
    ELSE LET r == WavedecLoop(n, DecLen(wavelet), level, <<>>) IN
         [raised |-> r.raised,
          warned |-> level > DwtMaxLevel(n, DecLen(wavelet)),
          lens |-> r.lens,
          exc |-> IF r.raised THEN "RuntimeError: Invalid output length." ELSE ""]

\* [feature_map[feat](coeff) for feat in features_to_extract if feat in feature_map]
DwtRow(known, i, id) ==
    [j \in 1..Len(known) |-> Term(known[j], i - 1, id)]

\* variant: the loops nested the other way round (statistic-major)
DwtCompute_StatMajor(known, ncoeffs, id) ==
    Flatten([j \in 1..Len(known) |->
                [i \in 1..ncoeffs |-> Term(known[j], i - 1, id)]])

\* for coeff in coeffs: computed_features.extend([...])
DwtCompute(known, ncoeffs, id) ==
    Flatten([i \in 1..ncoeffs |-> DwtRow(known, i, id)])

extract_wavelet_features(data, features_to_extract, wavelet, level) ==
    LET coeffs == Wavedec(Len(data), wavelet, level)
        feats == IF Falsy(features_to_extract) THEN DwtDefault
                 ELSE features_to_extract.names
        known == Filter(feats, DwtFeatureMap)
        id == DwtOf(IF data = <<>> THEN "" ELSE SigId(data), wavelet, level)
    IN IF coeffs.raised THEN Raise(coeffs.exc)
       ELSE IF \E i \in 1..Len(coeffs.lens) :
                  coeffs.lens[i] = 0 /\ Range(known) \cap DwtRaisesOnEmpty # {}
            THEN Raise("ValueError: zero-size array to reduction operation")
       ELSE LET v == NdArray(DwtCompute(known, Len(coeffs.lens), id))
            IN IF coeffs.warned THEN OkWarn(v) ELSE Ok(v)

---------------------------------------------------------------------------
(* apply_feature_extraction *)

Columns(d) == Range(d.columns)

\* variant: the column is always appended, also when the name exists
SetColumn_AlwaysAppend(d, name, cells) ==
    [columns |-> Append(d.columns, name),
     data |-> [c \in Range(d.columns) \cup {name} |-> IF c = name THEN cells ELSE d.data[c]]]

\* df[name] = cells: a new column goes last, an existing one is overwritten
SetColumn(d, name, cells) ==
    [columns |-> IF name \in Columns(d) THEN d.columns ELSE Append(d.columns, name),
     data |-> [c \in Columns(d) \cup {name} |-> IF c = name THEN cells ELSE d.data[c]]]

StftName(col) == "stft_" \o col

DwtName(col) == "dwt_" \o col

\* Series.apply(f) runs f row by row: the first exception ends it
FirstExc(outcomes) ==
    outcomes[CHOOSE r \in 1..Len(outcomes) :
                 outcomes[r].raised /\ \A q \in 1..(r - 1) : ~outcomes[q].raised].exc

\* variant: only the stft_ column is written
ApplyColumn_StftOnly(d, col) ==
    IF col \notin Columns(d) THEN [raised |-> FALSE, exc |-> "", df |-> d]
    ELSE LET s == [r \in 1..Len(d.data[col]) |->
                      extract_stft_features(d.data[col][r], NoneSpec)]
         IN IF \E r \in 1..Len(s) : s[r].raised
            THEN [raised |-> TRUE, exc |-> FirstExc(s), df |-> d]
            ELSE [raised |-> FALSE, exc |-> "",
                  df |-> SetColumn(d, StftName(col),
                                   [r \in 1..Len(s) |-> ToList(s[r].value)])]

\* variant: the stft features are written over the source column
ApplyColumn_InPlace(d, col) ==
    IF col \notin Columns(d) THEN [raised |-> FALSE, exc |-> "", df |-> d]
    ELSE LET s == [r \in 1..Len(d.data[col]) |->
                      extract_stft_features(d.data[col][r], NoneSpec)]
         IN IF \E r \in 1..Len(s) : s[r].raised
            THEN [raised |-> TRUE, exc |-> FirstExc(s), df |-> d]
            ELSE LET d1 == SetColumn(d, col, [r \in 1..Len(s) |-> ToList(s[r].value)])
                     w == [r \in 1..Len(d.data[col]) |->
                              extract_wavelet_features(d.data[col][r], NoneSpec,
                                                       DefaultWavelet, DefaultLevel)]
                 IN IF \E r \in 1..Len(w) : w[r].raised
                    THEN [raised |-> TRUE, exc |-> FirstExc(w), df |-> d1]
                    ELSE [raised |-> FALSE, exc |-> "",
                          df |-> SetColumn(d1, DwtName(col),
                                           [r \in 1..Len(w) |-> ToList(w[r].value)])]

\* variant: a failing row is caught and stored as an empty list
ApplyColumn_Swallow(d, col) ==
    IF col \notin Columns(d) THEN [raised |-> FALSE, exc |-> "", df |-> d]
    ELSE LET s == [r \in 1..Len(d.data[col]) |->
                      extract_stft_features(d.data[col][r], NoneSpec)]
             d1 == SetColumn(d, StftName(col), [r \in 1..Len(s) |-> ToList(s[r].value)])
             w == [r \in 1..Len(d.data[col]) |->
                      extract_wavelet_features(d.data[col][r], NoneSpec,
                                               DefaultWavelet, DefaultLevel)]
         IN [raised |-> FALSE, exc |-> "",
             df |-> SetColumn(d1, DwtName(col), [r \in 1..Len(w) |-> ToList(w[r].value)])]

\* one iteration of "for col in columns"
ApplyColumn(d, col) ==
    IF col \notin Columns(d) THEN [raised |-> FALSE, exc |-> "", df |-> d]
    ELSE LET s == [r \in 1..Len(d.data[col]) |->
                      extract_stft_features(d.data[col][r], NoneSpec)]
         IN IF \E r \in 1..Len(s) : s[r].raised
            THEN [raised |-> TRUE, exc |-> FirstExc(s), df |-> d]
            ELSE LET d1 == SetColumn(d, StftName(col),
                                     [r \in 1..Len(s) |-> ToList(s[r].value)])
                     w == [r \in 1..Len(d1.data[col]) |->
                              extract_wavelet_features(d1.data[col][r], NoneSpec,
                                                       DefaultWavelet, DefaultLevel)]
                 IN IF \E r \in 1..Len(w) : w[r].raised
                    THEN [raised |-> TRUE, exc |-> FirstExc(w), df |-> d1]
                    ELSE [raised |-> FALSE, exc |-> "",
                          df |-> SetColumn(d1, DwtName(col),
                                           [r \in 1..Len(w) |-> ToList(w[r].value)])]

RECURSIVE apply_feature_extraction(_, _)
apply_feature_extraction(d, columns) ==
    IF columns = <<>> THEN [raised |-> FALSE, exc |-> "", df |-> d]
    ELSE LET one == ApplyColumn(d, Head(columns)) IN
         IF one.raised THEN one
         ELSE apply_feature_extraction(one.df, Tail(columns))

---------------------------------------------------------------------------
(* Inputs *)

\* a column of raw signals; row r has RowLens[r] samples (cyclically)
RawColumn(name, lens) ==
    [r \in 1..NRows |->
        RawSignal(name \o "[" \o ToString(r) \o "]", lens[((r - 1) % Len(lens)) + 1])]

Dataset(names, lens) ==
    [columns |-> names,
     data |-> [c \in Range(names) |->
                 RawColumn(c, lens[CHOOSE i \in 1..Len(names) : names[i] = c])]]

InitialDatasets ==
    { Dataset(<<"sizes">>, << <<300, 600>> >>),
      Dataset(<<"sizes", "times">>, << <<257, 300>>, <<200, 100>> >>),
      Dataset(<<"sizes", "stft_sizes">>, << <<300, 257>>, <<280, 300>> >>),
      Dataset(<<"sizes", "times">>, << <<560, 256>>, <<200, 129>> >>),
      Dataset(<<"sizes">>, << <<129, 0>> >>) }

\* names a caller puts in the columns list: source columns, columns the
\* function itself derives, and a column no dataset has
ColumnNames == {"sizes", "times", StftName("sizes"), DwtName("sizes"), "missing_col"}

ColumnLists == SeqsUpTo(ColumnNames, MaxCols)

StftSpecs ==
    {NoneSpec} \cup
    {ListSpec(s) : s \in SeqsUpTo({"mean", "spectral_centroid", "bogus_stat"}, MaxSpecLen)}

DwtSpecs ==
    {NoneSpec} \cup
    {ListSpec(s) : s \in SeqsUpTo({"mean", "max", "bogus_stat"}, MaxSpecLen)}

Wavelets == {"coif6", "haar"}

Levels == (0 - 1)..MaxLevel

---------------------------------------------------------------------------
(* The state machine: df is the DataFrame, call the call that has just     *)
(* been made on it (op "none" between two calls), result its outcome.      *)

Call(op, col, row, spec, wavelet, level, columns) ==
    [op |-> op, col |-> col, row |-> row, spec |-> spec, wavelet |-> wavelet,
     level |-> level, columns |-> columns]

NoCall == Call("none", "", 0, NoneSpec, "", 0, <<>>)

NoResult == Ok(NdArray(<<>>))

Init ==
    /\ df \in InitialDatasets
    /\ call = NoCall
    /\ result = NoResult

ExtractStft ==
    \E col \in Columns(df), row \in 1..NRows, spec \in StftSpecs :
        /\ call = NoCall
        /\ call' = Call("stft", col, row, spec, "", 0, <<>>)
        /\ result' = extract_stft_features(df.data[col][row], spec)
        /\ UNCHANGED df

ExtractWavelet ==
    \E col \in Columns(df), row \in 1..NRows, spec \in DwtSpecs,
       wavelet \in Wavelets, level \in Levels :
        /\ call = NoCall
        /\ call' = Call("dwt", col, row, spec, wavelet, level, <<>>)
        /\ result' = extract_wavelet_features(df.data[col][row], spec, wavelet, level)
        /\ UNCHANGED df

ApplyFeatureExtraction ==
    \E columns \in ColumnLists :
        LET r == apply_feature_extraction(df, columns) IN
        /\ call = NoCall
        /\ call' = Call("apply", "", 0, NoneSpec, "", 0, columns)
        /\ result' = IF r.raised THEN Raise(r.exc) ELSE NoResult
        /\ df' = r.df

\* the caller has taken the outcome of the call; the DataFrame stays
Return ==
    /\ call # NoCall
    /\ call' = NoCall
    /\ result' = NoResult
    /\ UNCHANGED df

NextExtract == ExtractStft \/ ExtractWavelet \/ Return

NextApply == ApplyFeatureExtraction \/ Return

Next == ExtractStft \/ ExtractWavelet \/ ApplyFeatureExtraction \/ Return

Spec == Init /\ [][Next]_vars

SpecExtract == Init /\ [][NextExtract]_vars

SpecApply == Init /\ [][NextApply]_vars

---------------------------------------------------------------------------
(* Properties *)

\* the input of the extractor call that has just been made
Data == df.data[call.col][call.row]

Count(names, S) == Len(SelectSeq(names, LAMBDA e : e \in S))

Reverse(s) == [i \in 1..Len(s) |-> s[Len(s) + 1 - i]]

Bins == (nperseg \div 2) + 1

Hop == nperseg - noverlap

Frames(n) == ((n + Hop - 1) \div Hop) + 1

ClaimedStftDefault ==
    <<"mean", "std", "spectral_centroid", "spectral_bandwidth",
      "spectral_contrast", "spectral_flatness", "spectral_rolloff",
      "chroma_stft", "mfcc">>

ClaimedDwtDefault ==
    <<"mean", "std", "median", "max", "min", "range", "energy",
      "crest_factor", "shape_factor">>

PerBin == {"mean", "std"}

PerFrame == Range(ClaimedStftDefault) \ PerBin

Absent(spec) == spec.none \/ spec.names = <<>>

Requested(spec, default) == IF Absent(spec) THEN default ELSE spec.names

StftReturned == call.op = "stft" /\ ~result.raised

DwtReturned == call.op = "dwt" /\ ~result.raised

Vector == result.value.data

C2_LengthIsLevelsTimesSpec ==
    (DwtReturned /\ ~Absent(call.spec)) =>
        Len(Vector) = (call.level + 1) * Len(call.spec.names)

\* C2 (amended): the vector has (L+1) x k values, k being the number of
\* requested names that are in the supported vocabulary (9 for an absent or
\* empty spec).
C2_DwtLength ==
    DwtReturned =>
        Len(Vector) = (call.level + 1)
                      * Count(Requested(call.spec, ClaimedDwtDefault),
                              Range(ClaimedDwtDefault))

C2_Witness ==
    /\ DwtReturned
    /\ call.level = 2
    /\ call.spec = ListSpec(<<"mean", "bogus_stat">>)
    /\ Len(Vector) = 3

Vocabulary(op) ==
    IF op = "stft" THEN Range(ClaimedStftDefault) ELSE Range(ClaimedDwtDefault)

\* a name of the columns list exists when the loop reaches it: it was in the
\* dataset before the call, or an earlier name that was reached made it
RECURSIVE PresentAt(_, _, _)
PresentAt(d, cols, i) ==
    \/ cols[i] \in Columns(d)
    \/ \E j \in 1..(i - 1) :
          PresentAt(d, cols, j) /\ cols[i] \in {StftName(cols[j]), DwtName(cols[j])}

\* the column holds, in every row, a sequence of the statistics of the
\* default vocabulary of the extractor
IsFeatureColumn(d, name, op) ==
    /\ name \in Columns(d)
    /\ Len(d.data[name]) = NRows
    /\ \A r \in 1..NRows :
          {d.data[name][r][k].stat : k \in 1..Len(d.data[name][r])} = Vocabulary(op)

\* C3 (as stated): after a call that returns, every name of the list that
\* was in the dataset has its stft_ and dwt_ column, and no column is added
\* for a name that was not in the dataset.
C3_ExistingGetColumnsMissingGetNone ==
    [][(call'.op = "apply" /\ ~result'.raised) =>
        \A i \in 1..Len(call'.columns) :
            LET c == call'.columns[i] IN
            IF c \in Columns(df)
            THEN /\ IsFeatureColumn(df', StftName(c), "stft")
                 /\ IsFeatureColumn(df', DwtName(c), "dwt")
            ELSE /\ StftName(c) \notin Columns(df') \ Columns(df)
                 /\ DwtName(c) \notin Columns(df') \ Columns(df)]_vars

\* C3 (amended): after a call that returns, every name of the list that is
\* in the dataset when the loop reaches it (it was there before the call, or
\* it is the stft_/dwt_ column of an earlier name of the list that was
\* reached) has its stft_ and dwt_ column with one feature sequence per row;
\* every added column belongs to such a name; a list of absent names raises
\* nothing and changes nothing.
C3_ReachedGetColumns ==
    [][call'.op = "apply" =>
        LET cols == call'.columns IN
        /\ ~result'.raised =>
              \A i \in 1..Len(cols) :
                  PresentAt(df, cols, i) =>
                      /\ IsFeatureColumn(df', StftName(cols[i]), "stft")
                      /\ IsFeatureColumn(df', DwtName(cols[i]), "dwt")
        /\ \A n \in Columns(df') \ Columns(df) :
              \E i \in 1..Len(cols) :
                  PresentAt(df, cols, i) /\ n \in {StftName(cols[i]), DwtName(cols[i])}
        /\ (\A i \in 1..Len(cols) : cols[i] \notin Columns(df)) =>
              (~result'.raised /\ df' = df)]_vars

C3_Witness ==
    /\ call.op = "apply"
    /\ ~result.raised
    /\ call.columns = <<"sizes", "missing_col">>
    /\ IsFeatureColumn(df, "stft_sizes", "stft")
    /\ IsFeatureColumn(df, "dwt_sizes", "dwt")
    /\ "stft_missing_col" \notin Columns(df)

\* the signal itself is accepted by the extractor (the default spec works)
SignalAccepted ==
    IF call.op = "stft" THEN ~extract_stft_features(Data, NoneSpec).raised
    ELSE ~extract_wavelet_features(Data, NoneSpec, call.wavelet, call.level).raised

\* C4: with a non-empty spec, unknown names are skipped without an error and
\* the vector holds exactly the segments of the known names, also when every
\* name is unknown.
C4_UnknownNamesSkipped ==
    (call.op \in {"stft", "dwt"} /\ ~Absent(call.spec) /\ SignalAccepted) =>
        /\ ~result.raised
        /\ {Vector[k].stat : k \in 1..Len(Vector)}
             = Range(call.spec.names) \cap Vocabulary(call.op)

\* C5: extract_wavelet_features raises whenever the signal is too short for
\* the filter length of the wavelet at the chosen level.
C5_TooShortRaises ==
    (call.op = "dwt" /\ call.level >= 0
       /\ call.level > DwtMaxLevel(Len(Data), DecLen(call.wavelet))) =>
        result.raised

\* the statistic of every segment of an STFT vector, in the order of the
\* segments (a segment starts where the position within the statistic is 1)
SegmentStats(v) ==
    LET heads == SelectSeq(v, LAMBDA e : e.idx = 1)
    IN [j \in 1..Len(heads) |-> heads[j].stat]

\* C6: the wavelet vector holds at position i*k + j statistic j of
\* coefficient array i (array 0 the coarsest approximation), the STFT vector
\* holds the segments of the requested known statistics in spec order, and
\* reversing the spec rearranges the same values and changes nothing else.
C6_SpecOrder ==
    /\ DwtReturned =>
          LET req == Requested(call.spec, ClaimedDwtDefault)
              known == SelectSeq(req, LAMBDA e : e \in Range(ClaimedDwtDefault))
              k == Len(known)
              rev == extract_wavelet_features(Data, ListSpec(Reverse(req)),
                                              call.wavelet, call.level)
          IN /\ Len(Vector) = (call.level + 1) * k
             /\ \A i \in 0..call.level, j \in 0..(k - 1) :
                   /\ Vector[i * k + j + 1].stat = known[j + 1]
                   /\ Vector[i * k + j + 1].idx = i
                   /\ Vector[i * k + j + 1].of = Vector[1].of
                   /\ k > 0 => rev.value.data[i * k + (k - 1 - j) + 1] = Vector[i * k + j + 1]
             /\ k > 0 => Len(rev.value.data) = Len(Vector)
    /\ StftReturned =>
          LET req == Requested(call.spec, ClaimedStftDefault)
              known == SelectSeq(req, LAMBDA e : e \in Range(ClaimedStftDefault))
              rev == extract_stft_features(Data, ListSpec(Reverse(req)))
          IN /\ SegmentStats(Vector) = known
             /\ \A p \in 2..Len(Vector) :
                   Vector[p].idx > 1 =>
                       (Vector[p - 1].stat = Vector[p].stat
                          /\ Vector[p - 1].idx = Vector[p].idx - 1)
             /\ ~rev.raised
             /\ SegmentStats(rev.value.data) = Reverse(known)
             /\ Len(rev.value.data) = Len(Vector)
             /\ Range(rev.value.data) = Range(Vector)

C6_Witness ==
    \/ /\ DwtReturned
       /\ call.spec = ListSpec(<<"max", "mean">>)
       /\ call.level = 2
       /\ Vector[3].stat = "max" /\ Vector[3].idx = 1
    \/ /\ StftReturned
       /\ call.spec = ListSpec(<<"spectral_centroid", "mean">>)
       /\ Vector[1].stat = "spectral_centroid"

\* C7: an absent (None) or empty spec gives what the full default vocabulary,
\* in its fixed order, gives.
C7_AbsentSpecIsDefault ==
    /\ (call.op = "stft" /\ Absent(call.spec)) =>
          result = extract_stft_features(Data, ListSpec(ClaimedStftDefault))
    /\ (call.op = "dwt" /\ Absent(call.spec)) =>
          result = extract_wavelet_features(Data, ListSpec(ClaimedDwtDefault),
                                            call.wavelet, call.level)

C7_Witness ==
    /\ call.op \in {"stft", "dwt"}
    /\ call.spec = ListSpec(<<>>)
    /\ ~result.raised
    /\ Len(Vector) > 0

\* C8 (as stated): every column that existed before the call still exists
\* afterwards with the same cells in the same row order.
C8_ExistingColumnsUntouched ==
    [][call'.op = "apply" =>
        \A c \in Columns(df) : c \in Columns(df') /\ df'.data[c] = df.data[c]]_vars

\* C8 (amended): every column that existed before the call and is not named
\* stft_<c> or dwt_<c> for a name c of the columns list still exists
\* afterwards with the same cells in the same row order.
C8_OnlyDerivedColumnsWritten ==
    [][call'.op = "apply" =>
        \A c \in Columns(df) :
            (\A i \in 1..Len(call'.columns) :
                 c \notin {StftName(call'.columns[i]), DwtName(call'.columns[i])})
            => (c \in Columns(df') /\ df'.data[c] = df.data[c])]_vars

C8_Witness ==
    /\ call.op = "apply"
    /\ call.columns = <<"sizes", "stft_sizes">>
    /\ "times" \in Columns(df)
    /\ "stft_stft_sizes" \in Columns(df)

NamesNoDerived(cols) ==
    \A i \in 1..Len(cols), j \in 1..Len(cols) :
        cols[i] \notin {StftName(cols[j]), DwtName(cols[j])}

FailsOn(cells) ==
    \E r \in 1..Len(cells) :
        \/ extract_stft_features(cells[r], NoneSpec).raised
        \/ extract_wavelet_features(cells[r], NoneSpec, DefaultWavelet, DefaultLevel).raised

\* C10: when an extractor raises for a row of a column that is processed,
\* the call raises, and no column written by the call holds an empty or
\* missing cell.
C10_FailurePropagates ==
    [][call'.op = "apply" =>
        LET cols == call'.columns IN
        /\ (\E i \in 1..Len(cols) :
               /\ cols[i] \in Columns(df)
               /\ \A j \in 1..(i - 1) :
                     cols[i] \notin {StftName(cols[j]), DwtName(cols[j])}
               /\ FailsOn(df.data[cols[i]]))
           => result'.raised
        /\ \A n \in Columns(df') :
              (n \notin Columns(df) \/ df'.data[n] # df.data[n]) =>
                  /\ Len(df'.data[n]) = NRows
                  /\ \A r \in 1..NRows : df'.data[n][r] # <<>>]_vars

C10_Witness ==
    /\ call.op = "apply"
    /\ result.raised
    /\ call.columns = <<"sizes", "times">>
    /\ "stft_sizes" \in Columns(df)
    /\ "stft_times" \notin Columns(df)

====
